---- MODULE Spec2Model ----
(***************************************************************************)
(* Model of the kostentram backend: the auth routes (register, login,      *)
(* forgot-password, reset-password), the JWT helpers, the auth middleware  *)
(* and the protected listing routes, over the relational store.            *)
(*                                                                         *)
(* Every handler is an async function; it is cut into one atomic step per  *)
(* awaited store call.  Code between two store calls (schema parsing,      *)
(* bcrypt, JWT signing, building the response) only touches the request's  *)
(* own locals and is executed with the store call that follows it, or,     *)
(* for the tail of a handler, with the store call that precedes it.        *)
(***************************************************************************)
EXTENDS Integers, Sequences, FiniteSets, TLC

\* ---------------------------------------------------------------- bounds
NProc == 2          \* requests that can be in flight at once
MaxReq == 4         \* requests served in one behaviour
MaxTime == 7        \* days the clock can advance

Procs == 1..NProc

\* ------------------------------------------------------------ input sets
EmailA == <<"a", "@", "x">>
EmailB == <<"b", "@", "x">>
EmailBad == <<"a", "x">>
EmailInputs == {EmailA, EmailB, EmailBad}

PasswordInputs == {"secret1", "hunter22", "abc"}

\* crypto.randomBytes(32).toString('hex'): the n-th token the generator yields
TokenPool == <<"tok-00000001", "tok-00000002", "tok-00000003", "tok-00000004",
               "tok-00000005", "tok-00000006">>
ResetTokenInputs == {"tok-00000001", "tok-00000002", "tok"}

\* values of process.env.FRONTEND_URL: unset, or a base URL with a trailing slash
FrontendUrlInputs == {<<>>, <<"h", "/">>}

\* and the values that are nothing but a slash, or a base URL without one
FrontendUrlEdgeInputs == FrontendUrlInputs \cup {<<"/">>, <<"h">>}

\* ------------------------------------------------------------- variables
VARIABLES
    users,          \* table User: sequence of rows, id = position
    resets,         \* table PasswordReset: sequence of rows, id = position
    iklan,          \* table Iklan: set of rows
    nextIklanId,    \* the Iklan id sequence
    FRONTEND_URL,   \* process.env.FRONTEND_URL, read once at start
    now,            \* the clock, in days
    proc,           \* per request slot: position in the handler and its locals
    last,           \* the request that ended last: its inputs, locals and response
    nreq,           \* requests started so far
    creds,          \* the session credentials handed out in login responses
    hist            \* history: per user, the password writes in order (and,
                    \* for a write made by a reset, the day it was made)

vars == <<users, resets, iklan, nextIklanId, FRONTEND_URL, now, proc, last, nreq, creds, hist>>

\* ----------------------------------------------------------- validation
AtCount(e) == Cardinality({i \in 1..Len(e) : e[i] = "@"})

\* z.email(): one "@" with a non-empty local part and a non-empty domain
IsEmail(e) ==
    /\ Len(e) >= 3
    /\ AtCount(e) = 1
    /\ e[1] # "@"
    /\ e[Len(e)] # "@"

MinPasswordLen == 6
MinTokenLen == 10

\* the set of fields of the body that fail RegisterSchema
RegisterSchema(body) ==
    {f \in {"email", "password"} :
        \/ f = "email" /\ ~IsEmail(body.email)
        \/ f = "password" /\ Len(body.password) < MinPasswordLen}

LoginSchema(body) ==
    {f \in {"email", "password"} :
        \/ f = "email" /\ ~IsEmail(body.email)
        \/ f = "password" /\ Len(body.password) < MinPasswordLen}

ForgotSchema(body) ==
    {f \in {"email"} : ~IsEmail(body.email)}

ResetSchema(body) ==
    {f \in {"token", "newPassword"} :
        \/ f = "token" /\ Len(body.token) < MinTokenLen
        \/ f = "newPassword" /\ Len(body.newPassword) < MinPasswordLen}

\* ------------------------------------------------------------- responses
Resp(status, body) == [status |-> status, body |-> body]

\* no response has been written by the application (request in flight, or the
\* handler's promise rejected: server.ts mounts no error handler, so the
\* request is left to the framework, which either never answers it or answers
\* with its own 500 page, in neither case with a JSON body of the application)
NoResponse == Resp(0, [none |-> TRUE])

zodToFieldErrors(fields) ==
    [message |-> "Validation failed", formErrors |-> {}, fieldErrors |-> fields]

\* ---------------------------------------------------------------- bcrypt
\* bcrypt.hash(password, 10): a salted one-way hash; the salt is fresh per call
BcryptHash(password, salt) == <<"$2b$10", salt, password>>

\* compares against a hash made with a salt of its own
BcryptCompareFreshSalt(password, hashed) == hashed = BcryptHash(password, 0)

BcryptCompare(password, hashed) == hashed = BcryptHash(password, hashed[2])

\* ------------------------------------------------------------------- JWT
SECRET == "jwt-secret"
TTL == 7

signJwt(payload, t) ==
    [kind |-> "jwt", userId |-> payload.userId, email |-> payload.email,
     iat |-> t, exp |-> t + TTL, sig |-> SECRET]

\* jwt.verify: decode, then check the signature, then check exp
verifyJwt(token, t) ==
    IF token.kind # "jwt"
      THEN [ok |-> FALSE, name |-> "JsonWebTokenError", message |-> "jwt malformed"]
    ELSE IF token.sig # SECRET
      THEN [ok |-> FALSE, name |-> "JsonWebTokenError", message |-> "invalid signature"]
    ELSE IF t >= token.exp
      THEN [ok |-> FALSE, name |-> "TokenExpiredError", message |-> "jwt expired"]
    ELSE [ok |-> TRUE,
          payload |-> [userId |-> token.userId, email |-> token.email,
                       iat |-> token.iat, exp |-> token.exp]]

\* ----------------------------------------------------------------- store
NoUser == [id |-> 0, email |-> <<>>, password |-> <<>>]
NoRecord == [id |-> 0, token |-> "", userId |-> 0, used |-> FALSE, expiresAt |-> 0]

\* prisma.user.findUnique({ where: { email } })
FindUserByEmail(email) ==
    IF \E i \in 1..Len(users) : users[i].email = email
      THEN users[CHOOSE i \in 1..Len(users) : users[i].email = email]
      ELSE NoUser

\* prisma.passwordReset.findUnique({ where: { token } })
FindResetByToken(token) ==
    IF \E i \in 1..Len(resets) : resets[i].token = token
      THEN resets[CHOOSE i \in 1..Len(resets) : resets[i].token = token]
      ELSE NoRecord

\* without the unique index every insert is accepted
UserEmailKeyMissing(email) == TRUE

\* the unique index User_email_key: an insert of this email is accepted
UserEmailKeyAllows(email) == \A i \in 1..Len(users) : users[i].email # email

\* FE = process.env.FRONTEND_URL?.replace(/\/$/, '')
FE ==
    IF Len(FRONTEND_URL) > 0 /\ FRONTEND_URL[Len(FRONTEND_URL)] = "/"
      THEN SubSeq(FRONTEND_URL, 1, Len(FRONTEND_URL) - 1)
      ELSE FRONTEND_URL

\* buildResetLink(token): FE ? `${FE}/reset-password?token=${token}` : null
buildResetLink(token) ==
    IF Len(FE) > 0 THEN FE \o <<"/reset-password?token=", token>> ELSE <<>>

\* req.user before the middleware has set it
NoClaims == [userId |-> 0, email |-> <<>>, iat |-> 0, exp |-> 0]

NoItem == [title |-> "", price |-> 0]
NoIklan == [id |-> 0, ownerId |-> 0, title |-> "", price |-> 0, published |-> FALSE]

\* ------------------------------------------------------------- processes
\* history: what the store held for this email when a login looked it up
NotSeen == [looked |-> FALSE, uid |-> 0, ver |-> 0, done |-> FALSE]

Seen(email) ==
    IF \E i \in 1..Len(users) : users[i].email = email
      THEN LET i == CHOOSE j \in 1..Len(users) : users[j].email = email
           IN  [looked |-> TRUE, uid |-> i, ver |-> Len(hist[i]),
                done |-> hist[i][Len(hist[i])].done]
      ELSE [looked |-> TRUE, uid |-> 0, ver |-> 0, done |-> FALSE]

\* stale: history, the request reached the middleware with a token past its exp
\* prior: history, the resets of the token's user that had been answered 200
\*        when this reset looked its token up
Idle == [pc |-> "idle", op |-> "none", rid |-> 0, stale |-> FALSE, prior |-> 0,
         body |-> [email |-> <<>>, password |-> "", token |-> "", newPassword |-> ""],
         user |-> NoUser, record |-> NoRecord,
         hdr |-> <<>>, reqUser |-> NoClaims, id |-> 0, item |-> NoItem, own |-> NoIklan,
         resp |-> NoResponse,
         late |-> FALSE, seen |-> NotSeen]

Body(email, password, token, newPassword) ==
    [email |-> email, password |-> password, token |-> token, newPassword |-> newPassword]

\* a request arrives and takes the first free slot
CanStart(p) ==
    /\ proc[p].pc = "idle"
    /\ \A q \in Procs : q < p => proc[q].pc # "idle"
    /\ nreq < MaxReq

\* the request in slot p goes on as r; a request that has ended frees its slot
Continue(p, r) ==
    IF r.pc = "idle"
      THEN proc' = [proc EXCEPT ![p] = Idle] /\ last' = r
      ELSE proc' = [proc EXCEPT ![p] = r] /\ last' = last

Started(p, op, body) ==
    [Idle EXCEPT !.op = op, !.rid = nreq + 1, !.body = body]

InitWith(urls) ==
    /\ users = <<>>
    /\ resets = <<>>
    /\ iklan = {}
    /\ nextIklanId = 1
    /\ FRONTEND_URL \in urls
    /\ now = 0
    /\ proc = [p \in Procs |-> Idle]
    /\ last = Idle
    /\ nreq = 0
    /\ creds = {}
    /\ hist = <<>>

Init == InitWith(FrontendUrlInputs)

\* The store outlives the process: it starts against a store in which the
\* accounts of two earlier registrations are already held.
RegisteredUsers ==
    <<[id |-> 1, email |-> EmailA, password |-> BcryptHash("secret1", 0)],
      [id |-> 2, email |-> EmailB, password |-> BcryptHash("secret1", 0)]>>

InitRegistered ==
    /\ users = RegisteredUsers
    /\ resets = <<>>
    /\ iklan = {}
    /\ nextIklanId = 1
    /\ FRONTEND_URL = <<>>
    /\ now = 0
    /\ proc = [p \in Procs |-> Idle]
    /\ last = Idle
    /\ nreq = 0
    /\ creds = {}
    /\ hist = [u \in 1..Len(RegisteredUsers) |->
                  <<[pw |-> "secret1", tok |-> 0, rid |-> 0, done |-> TRUE, at |-> 0]>>]

\* ------------------------------------------------------- POST /register
\* the try/catch around prisma.user.create: any throw is answered 409
RegisterResult(body, storeOk) ==
    IF storeOk /\ UserEmailKeyAllows(body.email)
      THEN Resp(201, [id |-> Len(users) + 1, email |-> body.email])
      ELSE Resp(409, [error |-> "Email exists"])

\* parse the body and await bcrypt.hash
RegisterHashWith(p, emails, passwords) ==
    /\ CanStart(p)
    /\ \E email \in emails, password \in passwords :
        LET body == Body(email, password, "", "")
            st == Started(p, "register", body)
        IN  Continue(p,
                IF RegisterSchema(body) # {}
                  THEN [st EXCEPT !.resp = Resp(400, zodToFieldErrors(RegisterSchema(body)))]
                  ELSE [st EXCEPT !.pc = "register_create"])
    /\ nreq' = nreq + 1
    /\ UNCHANGED <<users, resets, iklan, nextIklanId, FRONTEND_URL, now, creds, hist>>

RegisterHash(p) == RegisterHashWith(p, EmailInputs, PasswordInputs)

\* prisma.user.create({ data: { email, password: hashed, name } }) and the response
RegisterCreate(p) ==
    /\ proc[p].pc = "register_create"
    /\ \E storeOk \in BOOLEAN :
        LET body == proc[p].body
            res == RegisterResult(body, storeOk)
            hashed == BcryptHash(body.password, proc[p].rid)
        IN  /\ Continue(p, [proc[p] EXCEPT !.pc = "idle", !.resp = res])
            /\ IF res.status = 201
                 THEN /\ users' = Append(users, [id |-> Len(users) + 1, email |-> body.email,
                                                 password |-> hashed])
                      /\ hist' = Append(hist, <<[pw |-> body.password, tok |-> 0,
                                                 rid |-> proc[p].rid, done |-> TRUE,
                                                 at |-> 0]>>)
                 ELSE UNCHANGED <<users, hist>>
    /\ UNCHANGED <<resets, iklan, nextIklanId, FRONTEND_URL, now, nreq, creds>>

\* ----------------------------------------------------------- POST /login
\* answers an unknown email differently from a wrong password
LoginResultNamingCause(body, u, t) ==
    IF u.id = 0
      THEN Resp(404, [error |-> "User not found"])
    ELSE IF ~BcryptCompare(body.password, u.password)
      THEN Resp(401, [error |-> "Invalid credentials"])
    ELSE Resp(200, [token |-> signJwt([userId |-> u.id, email |-> u.email], t)])

LoginResult(body, u, t) ==
    IF u.id = 0 \/ ~BcryptCompare(body.password, u.password)
      THEN Resp(401, [error |-> "Invalid credentials"])
      ELSE Resp(200, [token |-> signJwt([userId |-> u.id, email |-> u.email], t)])

LoginWith(p, emails, passwords) ==
    /\ CanStart(p)
    /\ \E email \in emails, password \in passwords, storeOk \in BOOLEAN :
        LET body == Body(email, password, "", "")
            u == FindUserByEmail(email)
            res == IF LoginSchema(body) # {}
                     THEN Resp(400, zodToFieldErrors(LoginSchema(body)))
                   ELSE IF ~storeOk THEN NoResponse
                   ELSE LoginResult(body, u, now)
            looked == LoginSchema(body) = {} /\ storeOk
        IN  /\ Continue(p,
                [Started(p, "login", body) EXCEPT
                    !.resp = res,
                    !.user = IF looked THEN u ELSE NoUser,
                    !.seen = IF looked THEN Seen(email) ELSE NotSeen])
            /\ creds' = IF res.status = 200 THEN creds \cup {res.body.token} ELSE creds
    /\ nreq' = nreq + 1
    /\ UNCHANGED <<users, resets, iklan, nextIklanId, FRONTEND_URL, now, hist>>

Login(p) == LoginWith(p, EmailInputs, PasswordInputs)

\* ------------------------------------------------- POST /forgot-password
ForgotNoUserResponse == Resp(200, [message |-> "If the email exists, a reset link will be sent"])

\* hands the token out whether or not a reset link could be built
ForgotResponseEchoingToken(token) ==
    Resp(200, [message |-> "Reset link generated (testing mode)",
               token |-> token,
               hint |-> "POST to /auth/reset-password with { token, newPassword }"])

ForgotResponse(token) ==
    IF buildResetLink(token) # <<>>
      THEN Resp(200, [message |-> "Reset link generated"])
      ELSE Resp(200, [message |-> "Reset link generated (testing mode)",
                      token |-> token,
                      hint |-> "POST to /auth/reset-password with { token, newPassword }"])

\* parse the body and look the user up
ForgotLookupWith(p, emails) ==
    /\ CanStart(p)
    /\ \E email \in emails, storeOk \in BOOLEAN :
        LET body == Body(email, "", "", "")
            u == FindUserByEmail(email)
            st == Started(p, "forgot", body)
        IN  Continue(p,
                IF ForgotSchema(body) # {}
                  THEN [st EXCEPT !.resp = Resp(400, zodToFieldErrors(ForgotSchema(body)))]
                ELSE IF ~storeOk THEN st
                ELSE IF u.id = 0 THEN [st EXCEPT !.resp = ForgotNoUserResponse]
                ELSE [st EXCEPT !.pc = "forgot_create", !.user = u])
    /\ nreq' = nreq + 1
    /\ UNCHANGED <<users, resets, iklan, nextIklanId, FRONTEND_URL, now, creds, hist>>

\* prisma.passwordReset.create({ data: { token, userId } }) and the response
ForgotCreate(p) ==
    /\ proc[p].pc = "forgot_create"
    /\ LET token == TokenPool[Len(resets) + 1]
       IN  /\ resets' = Append(resets, [id |-> Len(resets) + 1, token |-> token,
                                        userId |-> proc[p].user.id,
                                        used |-> FALSE, expiresAt |-> 0])
           /\ Continue(p, [proc[p] EXCEPT !.pc = "idle", !.resp = ForgotResponse(token)])
    /\ UNCHANGED <<users, iklan, nextIklanId, FRONTEND_URL, now, nreq, creds, hist>>

\* -------------------------------------------------- POST /reset-password
InvalidTokenResponse == Resp(400, [error |-> "Invalid or already used token"])

ResetOkResponse == Resp(200, [message |-> "Password updated successfully (testing mode)"])

\* also turns a token away once another token of its user has been used
ResetRejectsAfterAnyReset(record) ==
    \/ record.id = 0
    \/ record.used
    \/ \E i \in 1..Len(resets) : resets[i].userId = record.userId /\ resets[i].used

\* if (!record), the used flag not looked at
ResetRejectsUnknownOnly(record) == record.id = 0

\* if (!record || record.used)
ResetRejects(record) == record.id = 0 \/ record.used

\* some reset request carrying this token row has been answered 200
Consumed(record) ==
    /\ record.id # 0
    /\ \E k \in 1..Len(hist[record.userId]) :
          /\ hist[record.userId][k].tok = record.id
          /\ hist[record.userId][k].done

\* the resets of the row's user that have been answered 200
Prior(record) ==
    IF record.id = 0 THEN 0
    ELSE Cardinality({k \in 1..Len(hist[record.userId]) :
                        hist[record.userId][k].tok # 0 /\ hist[record.userId][k].done})

\* parse the body and look the token up
ResetLookupWith(p, tokens, passwords) ==
    /\ CanStart(p)
    /\ \E token \in tokens, newPassword \in passwords, storeOk \in BOOLEAN :
        LET body == Body(<<>>, "", token, newPassword)
            record == FindResetByToken(token)
            st == Started(p, "reset", body)
        IN  Continue(p,
                IF ResetSchema(body) # {}
                  THEN [st EXCEPT !.resp = Resp(400, zodToFieldErrors(ResetSchema(body)))]
                ELSE IF ~storeOk THEN st
                ELSE IF ResetRejects(record)
                  THEN [st EXCEPT !.resp = InvalidTokenResponse, !.record = record,
                                  !.late = Consumed(record), !.prior = Prior(record)]
                ELSE [st EXCEPT !.pc = "reset_update_user", !.record = record,
                                !.late = Consumed(record), !.prior = Prior(record)])
    /\ nreq' = nreq + 1
    /\ UNCHANGED <<users, resets, iklan, nextIklanId, FRONTEND_URL, now, creds, hist>>

\* the row prisma.user.update({ where: { id: record.userId }, ... }) writes
ResetTargetUser(record) == record.userId

\* hashes the token instead of the new password
ResetNewHashOfToken(body, salt) == BcryptHash(body.token, salt)

\* const hashed = await bcrypt.hash(newPassword, 10)
ResetNewHash(body, salt) == BcryptHash(body.newPassword, salt)

\* bcrypt.hash(newPassword, 10) and prisma.user.update
ResetUpdateUser(p) ==
    /\ proc[p].pc = "reset_update_user"
    /\ LET uid == ResetTargetUser(proc[p].record)
           hashed == ResetNewHash(proc[p].body, proc[p].rid)
       IN  /\ uid \in 1..Len(users)
           /\ users' = [users EXCEPT ![uid].password = hashed]
           /\ hist' = [hist EXCEPT ![uid] =
                          Append(@, [pw |-> proc[p].body.newPassword,
                                     tok |-> proc[p].record.id,
                                     rid |-> proc[p].rid, done |-> FALSE,
                                     at |-> now])]
    /\ Continue(p, [proc[p] EXCEPT !.pc = "reset_mark_used"])
    /\ UNCHANGED <<resets, iklan, nextIklanId, FRONTEND_URL, now, nreq, creds>>

\* prisma.passwordReset.update({ where: { id }, data: { used: true } }) and the response
ResetMarkUsed(p) ==
    /\ proc[p].pc = "reset_mark_used"
    /\ resets' = [resets EXCEPT ![proc[p].record.id].used = TRUE]
    /\ Continue(p, [proc[p] EXCEPT !.pc = "idle", !.resp = ResetOkResponse])
    /\ hist' = [u \in 1..Len(hist) |->
                  [k \in 1..Len(hist[u]) |->
                      IF hist[u][k].rid = proc[p].rid
                        THEN [hist[u][k] EXCEPT !.done = TRUE]
                        ELSE hist[u][k]]]
    /\ UNCHANGED <<users, iklan, nextIklanId, FRONTEND_URL, now, nreq, creds>>

\* ------------------------------------------------------- store failures
\* the store call a request is waiting on throws: the handler has no
\* try/catch around it, its promise rejects and no response is written
StoreFail(p) ==
    /\ proc[p].pc \in {"forgot_create", "reset_update_user", "reset_mark_used",
                       "put_update", "delete_delete"}
    /\ Continue(p, [proc[p] EXCEPT !.pc = "idle"])
    /\ UNCHANGED <<users, resets, iklan, nextIklanId, FRONTEND_URL, now, nreq, creds, hist>>

\* ------------------------------------------------- the auth middleware
\* Authorization headers a client can send: none, another scheme, or
\* 'Bearer ' followed by a credential it was given, a token signed with a
\* key that is not the process secret, or a string that is not a JWT
Garbage == [kind |-> "garbage", userId |-> 0, email |-> <<>>, iat |-> 0, exp |-> 0, sig |-> ""]

Forged ==
    [kind |-> "jwt", userId |-> 1, email |-> EmailA, iat |-> 0, exp |-> MaxTime + 1,
     sig |-> "not-the-secret"]

AuthHeaderInputs ==
    {<<>>, <<"Basic ", Garbage>>}
        \cup {<<"Bearer ", token>> : token \in creds \cup {Forged, Garbage}}

\* hdr?.startsWith('Bearer ')
StartsWithBearer(hdr) == Len(hdr) > 0 /\ hdr[1] = "Bearer "

\* passes the thrown error's message on to the client
AuthCatchLeakingMessage(err) == Resp(401, [error |-> err.message])

\* the response the catch block of the middleware writes for a thrown error
AuthCatch(err) == Resp(401, [error |-> "Invalid token"])

\* jwt.decode in place of jwt.verify: any well-formed token is let through
authDecodeOnly(hdr, t) ==
    IF ~StartsWithBearer(hdr)
      THEN [next |-> FALSE, user |-> NoClaims, resp |-> Resp(401, [error |-> "No token"])]
    ELSE IF hdr[2].kind = "jwt"
      THEN [next |-> TRUE,
            user |-> [userId |-> hdr[2].userId, email |-> hdr[2].email,
                      iat |-> hdr[2].iat, exp |-> hdr[2].exp],
            resp |-> NoResponse]
    ELSE [next |-> FALSE, user |-> NoClaims, resp |-> AuthCatch(verifyJwt(hdr[2], t))]

\* turns a credential away once its user has had a reset token consumed
authRevokedByReset(hdr, t) ==
    IF ~StartsWithBearer(hdr)
      THEN [next |-> FALSE, user |-> NoClaims, resp |-> Resp(401, [error |-> "No token"])]
    ELSE IF /\ verifyJwt(hdr[2], t).ok
            /\ ~\E i \in 1..Len(resets) :
                    resets[i].userId = hdr[2].userId /\ resets[i].used
      THEN [next |-> TRUE, user |-> verifyJwt(hdr[2], t).payload, resp |-> NoResponse]
    ELSE [next |-> FALSE, user |-> NoClaims, resp |-> AuthCatch(verifyJwt(hdr[2], t))]

\* auth(req, res, next): either next() is called with req.user set, or a
\* response is written and the handler is not called
auth(hdr, t) ==
    IF ~StartsWithBearer(hdr)
      THEN [next |-> FALSE, user |-> NoClaims, resp |-> Resp(401, [error |-> "No token"])]
    ELSE IF verifyJwt(hdr[2], t).ok
      THEN [next |-> TRUE, user |-> verifyJwt(hdr[2], t).payload, resp |-> NoResponse]
    ELSE [next |-> FALSE, user |-> NoClaims, resp |-> AuthCatch(verifyJwt(hdr[2], t))]

\* ---------------------------------------------------------- /iklan routes
IklanItemInputs == {[title |-> "kost", price |-> 100],
                    [title |-> "kost", price |-> 200],
                    [title |-> "", price |-> 100]}
IklanIdInputs == {1, 2}

\* bodies of PUT /iklan/:id: those, and one that also names an owner
UpdateBodyInputs ==
    IklanItemInputs \cup {[title |-> "kost", price |-> 200, ownerId |-> 2]}

\* Update.safeParse(req.body).data: z.object keeps the keys of the schema and
\* strips every other key of the body
UpdateData(body) == [f \in DOMAIN body \cap {"title", "price"} |-> body[f]]

\* createIklanSchema and its partial(): the fields of the body that fail
createIklanSchema(item) ==
    {f \in {"title", "price"} :
        \/ f = "title" /\ Len(item.title) < 1
        \/ f = "price" /\ item.price < 0}

\* prisma.iklan.findUnique({ where: { id } })
FindIklan(id) ==
    IF \E ad \in iklan : ad.id = id
      THEN CHOOSE ad \in iklan : ad.id = id
      ELSE NoIklan

NotFoundResponse == Resp(404, [error |-> "Not found"])

\* a request to a protected route: the middleware runs first; req.params and
\* req.body are read by the handler only, so they are drawn when it runs
Gated(p, op, hdr, id) ==
    [Started(p, op, Idle.body) EXCEPT
        !.hdr = hdr,
        !.stale = Len(hdr) = 2 /\ now >= hdr[2].exp,
        !.id = id,
        !.reqUser = auth(hdr, now).user,
        !.resp = auth(hdr, now).resp]

\* POST /iklan
IklanCreate(p) ==
    /\ CanStart(p)
    /\ \E hdr \in AuthHeaderInputs :
        LET st == Gated(p, "post", hdr, 0)
        IN  IF ~auth(hdr, now).next
              THEN Continue(p, st) /\ UNCHANGED <<iklan, nextIklanId>>
              ELSE \E item \in IklanItemInputs, storeOk \in BOOLEAN :
                    LET row == [id |-> nextIklanId, ownerId |-> st.reqUser.userId,
                                title |-> item.title, price |-> item.price,
                                published |-> TRUE]
                    IN  IF createIklanSchema(item) # {}
                          THEN /\ Continue(p, [st EXCEPT !.item = item, !.resp =
                                      Resp(400, zodToFieldErrors(createIklanSchema(item)))])
                               /\ UNCHANGED <<iklan, nextIklanId>>
                        ELSE IF ~storeOk
                          THEN /\ Continue(p, [st EXCEPT !.item = item])
                               /\ UNCHANGED <<iklan, nextIklanId>>
                        ELSE /\ iklan' = iklan \cup {row}
                             /\ nextIklanId' = nextIklanId + 1
                             /\ Continue(p, [st EXCEPT !.item = item, !.resp = Resp(201, row)])
    /\ nreq' = nreq + 1
    /\ UNCHANGED <<users, resets, FRONTEND_URL, now, creds, hist>>

\* if (!own), the owner not compared
NotOwnMissingOnly(own, reqUser) == own.id = 0

\* if (!own || own.ownerId !== req.user!.userId)
NotOwn(own, reqUser) == own.id = 0 \/ own.ownerId # reqUser.userId

\* PUT /iklan/:id up to prisma.iklan.findUnique and the ownership check
IklanPutFind(p) ==
    /\ CanStart(p)
    /\ \E hdr \in AuthHeaderInputs :
        IF ~auth(hdr, now).next
          THEN Continue(p, Gated(p, "put", hdr, 0))
          ELSE \E id \in IklanIdInputs, storeOk \in BOOLEAN :
                LET st == Gated(p, "put", hdr, id)
                    own == FindIklan(id)
                IN  IF ~storeOk THEN Continue(p, st)
                    ELSE IF NotOwn(own, st.reqUser)
                      THEN Continue(p, [st EXCEPT !.resp = NotFoundResponse])
                    ELSE \E body \in UpdateBodyInputs :
                          Continue(p,
                            IF createIklanSchema(body) # {}
                              THEN [st EXCEPT !.own = own, !.item = UpdateData(body), !.resp =
                                      Resp(400, zodToFieldErrors(createIklanSchema(body)))]
                              ELSE [st EXCEPT !.own = own, !.item = UpdateData(body),
                                              !.pc = "put_update"])
    /\ nreq' = nreq + 1
    /\ UNCHANGED <<users, resets, iklan, nextIklanId, FRONTEND_URL, now, creds, hist>>

\* prisma.iklan.update({ where: { id }, data }): throws when the row is gone
IklanPutUpdate(p) ==
    /\ proc[p].pc = "put_update"
    /\ LET cur == FindIklan(proc[p].id)
           data == proc[p].item
           row == [f \in DOMAIN cur |-> IF f \in DOMAIN data THEN data[f] ELSE cur[f]]
       IN  IF cur.id = 0
             THEN Continue(p, [proc[p] EXCEPT !.pc = "idle"]) /\ iklan' = iklan
             ELSE /\ iklan' = (iklan \ {cur}) \cup {row}
                  /\ Continue(p, [proc[p] EXCEPT !.pc = "idle", !.resp = Resp(200, row)])
    /\ UNCHANGED <<users, resets, nextIklanId, FRONTEND_URL, now, nreq, creds, hist>>

\* DELETE /iklan/:id up to prisma.iklan.findUnique and the ownership check
IklanDeleteFind(p) ==
    /\ CanStart(p)
    /\ \E hdr \in AuthHeaderInputs :
        IF ~auth(hdr, now).next
          THEN Continue(p, Gated(p, "delete", hdr, 0))
          ELSE \E id \in IklanIdInputs, storeOk \in BOOLEAN :
                LET st == Gated(p, "delete", hdr, id)
                    own == FindIklan(id)
                IN  Continue(p,
                        IF ~storeOk THEN st
                        ELSE IF NotOwn(own, st.reqUser)
                          THEN [st EXCEPT !.resp = NotFoundResponse]
                        ELSE [st EXCEPT !.own = own, !.pc = "delete_delete"])
    /\ nreq' = nreq + 1
    /\ UNCHANGED <<users, resets, iklan, nextIklanId, FRONTEND_URL, now, creds, hist>>

\* prisma.iklan.delete({ where: { id } }): throws when the row is gone
IklanDeleteDelete(p) ==
    /\ proc[p].pc = "delete_delete"
    /\ LET cur == FindIklan(proc[p].id)
       IN  IF cur.id = 0
             THEN Continue(p, [proc[p] EXCEPT !.pc = "idle"]) /\ iklan' = iklan
             ELSE /\ iklan' = iklan \ {cur}
                  /\ Continue(p, [proc[p] EXCEPT !.pc = "idle",
                                                 !.resp = Resp(204, [empty |-> TRUE])])
    /\ UNCHANGED <<users, resets, nextIklanId, FRONTEND_URL, now, nreq, creds, hist>>

\* ------------------------------------------------------------- the clock
\* A day passes.  Only the age of a credential is ever compared with the
\* clock, so the clock starts with the first credential and is followed for as
\* long as some credential has not expired.
Tick ==
    /\ now < MaxTime
    /\ \E token \in creds : now < token.exp
    /\ now' = now + 1
    /\ UNCHANGED <<users, resets, iklan, nextIklanId, FRONTEND_URL, proc, last, nreq, creds, hist>>

\* ------------------------------------------------------ specifications
\* The credential lifecycle: two users register with one password, log in
\* with either password, ask for reset tokens and reset their passwords to
\* either password; store calls can fail.
LifecycleEmailInputs == {EmailA, EmailB}
LifecyclePasswordInputs == {"secret1", "hunter22"}

Next ==
    \E p \in Procs :
        \/ RegisterHashWith(p, LifecycleEmailInputs, {"secret1"})
        \/ RegisterCreate(p)
        \/ LoginWith(p, LifecycleEmailInputs, LifecyclePasswordInputs)
        \/ ForgotLookupWith(p, LifecycleEmailInputs)
        \/ ForgotCreate(p)
        \/ ResetLookupWith(p, ResetTokenInputs, LifecyclePasswordInputs)
        \/ ResetUpdateUser(p)
        \/ ResetMarkUsed(p)
        \/ StoreFail(p)

Spec == Init /\ [][Next]_vars

\* the front-end URL plays no part: the process starts without one
InitNoFrontend == Init /\ FRONTEND_URL = <<>>

\* Accounts: registration and login with every kind of body.
NextAccounts ==
    \E p \in Procs :
        \/ RegisterHash(p)
        \/ RegisterCreate(p)
        \/ Login(p)

SpecAccounts == InitNoFrontend /\ [][NextAccounts]_vars

\* The gate: two users register and log in, the protected listing routes are
\* called with every kind of Authorization header, and the clock runs.
GateEmailInputs == {EmailA, EmailB}
GatePasswordInputs == {"secret1"}

NextGate ==
    \/ Tick
    \/ \E p \in Procs :
        \/ RegisterHashWith(p, GateEmailInputs, GatePasswordInputs)
        \/ RegisterCreate(p)
        \/ LoginWith(p, GateEmailInputs, GatePasswordInputs)
        \/ IklanCreate(p)
        \/ IklanPutFind(p)
        \/ IklanPutUpdate(p)
        \/ IklanDeleteFind(p)
        \/ IklanDeleteDelete(p)
        \/ StoreFail(p)

SpecGate == InitNoFrontend /\ [][NextGate]_vars

\* Sessions: the holder of an account logs in, has the password reset and
\* creates listings with the credentials handed out, while the clock runs.
SessionEmailInputs == {EmailA}

NextSession ==
    \/ Tick
    \/ \E p \in Procs :
        \/ LoginWith(p, SessionEmailInputs, GatePasswordInputs)
        \/ ForgotLookupWith(p, SessionEmailInputs)
        \/ ForgotCreate(p)
        \/ ResetLookupWith(p, {"tok-00000001"}, {"hunter22"})
        \/ ResetUpdateUser(p)
        \/ ResetMarkUsed(p)
        \/ IklanCreate(p)
        \/ StoreFail(p)

SpecSession == InitRegistered /\ [][NextSession]_vars

\* Listings: the holders of two accounts log in and create, update and
\* delete listings, their own and each other's.
NextListing ==
    \E p \in Procs :
        \/ LoginWith(p, GateEmailInputs, GatePasswordInputs)
        \/ IklanCreate(p)
        \/ IklanPutFind(p)
        \/ IklanPutUpdate(p)
        \/ IklanDeleteFind(p)
        \/ IklanDeleteDelete(p)
        \/ StoreFail(p)

SpecListing == InitRegistered /\ [][NextListing]_vars

\* Reset tokens: the holder of an account asks for reset tokens and spends
\* them, in any order and with requests in flight together.
NextTokens ==
    \E p \in Procs :
        \/ ForgotLookupWith(p, SessionEmailInputs)
        \/ ForgotCreate(p)
        \/ ResetLookupWith(p, ResetTokenInputs, LifecyclePasswordInputs)
        \/ ResetUpdateUser(p)
        \/ ResetMarkUsed(p)
        \/ StoreFail(p)

SpecTokens == InitRegistered /\ [][NextTokens]_vars

\* Forgot-password: accounts are registered and reset tokens are asked for
\* with every kind of email, under every kind of FRONTEND_URL.
NextForgot ==
    \E p \in Procs :
        \/ RegisterHashWith(p, LifecycleEmailInputs, {"secret1"})
        \/ RegisterCreate(p)
        \/ ForgotLookupWith(p, EmailInputs)
        \/ ForgotCreate(p)
        \/ StoreFail(p)

SpecForgot == InitWith(FrontendUrlEdgeInputs) /\ [][NextForgot]_vars

\* ================================================================ claims
\* the reset requests carrying token row t that were answered 200
Successes(t) ==
    {k \in 1..Len(hist[resets[t].userId]) :
        /\ hist[resets[t].userId][k].tok = t
        /\ hist[resets[t].userId][k].done}

\* C1: for every reset token, at most one POST /auth/reset-password request
\* carrying it succeeds, whatever the interleaving of concurrent requests.
SingleUseToken == \A t \in 1..Len(resets) : Cardinality(Successes(t)) <= 1

InFlight(rid) == \E p \in Procs : proc[p].pc # "idle" /\ proc[p].rid = rid

\* C2: the password update and the marking of the token are all-or-nothing:
\* no user's password has been changed by a token whose used flag is still
\* false.  States in which the request that wrote the password is still
\* running towards its second write are not counted.
ResetAllOrNothing ==
    \A u \in 1..Len(hist) : \A k \in 1..Len(hist[u]) :
        (hist[u][k].tok # 0 /\ ~InFlight(hist[u][k].rid))
            => resets[hist[u][k].tok].used

\* C3: once a reset with a token has been answered 200, every reset request
\* that arrives later with that token is answered 400 'Invalid or already
\* used token', and answering it changes no user row and no token row.
ConsumedTokenRejected ==
    /\ [](last.op = "reset" /\ last.late => last.resp = InvalidTokenResponse)
    /\ [][(last'.rid # last.rid /\ last'.op = "reset" /\ last'.late)
            => (users' = users /\ resets' = resets)]_vars

ConsumedTokenRejectedWitness ==
    /\ last.op = "reset"
    /\ last.late
    /\ last.resp = InvalidTokenResponse
    /\ \E k \in 1..Len(hist[last.record.userId]) :
          /\ hist[last.record.userId][k].tok = last.record.id
          /\ hist[last.record.userId][k].done
          /\ hist[last.record.userId][k].pw # last.body.newPassword
          /\ users[last.record.userId].password =
                BcryptHash(hist[last.record.userId][k].pw, hist[last.record.userId][k].rid)

\* C4: there is at most one User row per email; a registration whose email is
\* already in the table when its insert runs is answered 409 and adds no row,
\* also when another registration of that email was in flight with it.
UniqueEmail ==
    /\ [](\A i, j \in 1..Len(users) : users[i].email = users[j].email => i = j)
    /\ [][(last'.rid # last.rid /\ last'.op = "register"
            /\ RegisterSchema(last'.body) = {}
            /\ \E i \in 1..Len(users) : users[i].email = last'.body.email)
            => (last'.resp = Resp(409, [error |-> "Email exists"]) /\ users' = users)]_vars

\* two registrations of one email were in flight together; the second insert got 409
UniqueEmailWitness ==
    /\ last.op = "register"
    /\ last.resp.status = 409
    /\ \E i \in 1..Len(users) :
          /\ users[i].email = last.body.email
          /\ users[i].password[2] > last.rid

\* C5: a login that fails because the email is not registered and a login
\* that fails because the password is wrong get the same status and body:
\* 401 {error: 'Invalid credentials'}.
LoginFailuresIdentical ==
    (/\ last.op = "login"
     /\ last.seen.looked
     /\ \/ last.seen.uid = 0
        \/ hist[last.seen.uid][last.seen.ver].pw # last.body.password)
        => last.resp = Resp(401, [error |-> "Invalid credentials"])

LoginFailuresIdenticalWitness ==
    /\ last.op = "login"
    /\ last.seen.uid # 0
    /\ hist[last.seen.uid][last.seen.ver].pw # last.body.password
    /\ last.resp = Resp(401, [error |-> "Invalid credentials"])

\* C6: with a front-end base URL configured, forgot-password answers a
\* registered email exactly as it answers an unregistered one.
ForgotSameResponse ==
    (/\ last.op = "forgot"
     /\ Len(FE) > 0
     /\ last.resp.status = 200)
        => last.resp = ForgotNoUserResponse

\* the credential verifies to this user at every instant before its expiry
VerifiesTo(token, uid, email) ==
    \A t \in token.iat..(token.iat + TTL - 1) :
        /\ verifyJwt(token, t).ok
        /\ verifyJwt(token, t).payload.userId = uid
        /\ verifyJwt(token, t).payload.email = email

\* C8: a login with the email and password of a successful registration,
\* with no password reset of that user before it, is answered 200 with a
\* credential that verifies to the user's id and email.
RegisterThenLogin ==
    (/\ last.op = "login"
     /\ last.seen.looked
     /\ last.seen.uid # 0
     /\ last.seen.ver = 1
     /\ hist[last.seen.uid][1].pw = last.body.password)
        => /\ last.resp.status = 200
           /\ VerifiesTo(last.resp.body.token, last.seen.uid, last.body.email)

RegisterThenLoginWitness ==
    /\ last.op = "login"
    /\ last.seen.uid = 2
    /\ last.seen.ver = 1
    /\ hist[2][1].pw = last.body.password
    /\ last.resp.status = 200

\* C9: after a reset of a user's password was answered 200 and no other
\* password write followed it, a login with the new password is answered 200
\* and a login with the previous password, if different, is answered 401.
LoginAfterReset ==
    (/\ last.op = "login"
     /\ last.seen.looked
     /\ last.seen.uid # 0
     /\ last.seen.ver >= 2
     /\ last.seen.done)
        => LET new == hist[last.seen.uid][last.seen.ver].pw
               old == hist[last.seen.uid][last.seen.ver - 1].pw
           IN  /\ last.body.password = new => last.resp.status = 200
               /\ (last.body.password = old /\ old # new) => last.resp.status = 401

LoginAfterResetWitness ==
    /\ last.op = "login"
    /\ last.seen.ver >= 2
    /\ last.seen.done
    /\ last.body.password = hist[last.seen.uid][last.seen.ver].pw
    /\ last.body.password # hist[last.seen.uid][last.seen.ver - 1].pw
    /\ last.resp.status = 200

GatedOps == {"post", "put", "delete"}

NoTokenResponse == Resp(401, [error |-> "No token"])
InvalidJwtResponse == Resp(401, [error |-> "Invalid token"])

BearerOf(r) == Len(r.hdr) = 2 /\ r.hdr[1] = "Bearer "

\* the request carried a credential that login issued and that had not
\* expired when the request arrived
ValidBearer(r) ==
    /\ BearerOf(r)
    /\ r.hdr[2] \in creds
    /\ ~r.stale

\* C7: a request to POST/PUT/DELETE /iklan without a 'Bearer ' header is
\* answered 401 'No token', one whose token does not verify 401 'Invalid
\* token', and neither changes the store; the listing table changes only in a
\* request whose token verified, and that request has the token's claims
\* attached.
GateProtects ==
    /\ [](last.op \in GatedOps =>
            /\ ~BearerOf(last) => last.resp = NoTokenResponse
            /\ (BearerOf(last) /\ ~ValidBearer(last)) => last.resp = InvalidJwtResponse
            /\ ValidBearer(last) =>
                  /\ last.reqUser.userId = last.hdr[2].userId
                  /\ last.reqUser.email = last.hdr[2].email
                  /\ last.resp \notin {NoTokenResponse, InvalidJwtResponse})
    /\ [][(last'.rid # last.rid /\ last'.op \in GatedOps /\ ~ValidBearer(last'))
            => UNCHANGED <<users, resets, iklan, nextIklanId>>]_vars
    /\ [][(iklan' # iklan \/ nextIklanId' # nextIklanId)
            => (last'.rid # last.rid /\ last'.op \in GatedOps /\ ValidBearer(last'))]_vars

\* a forged token is turned away from a listing that exists
GateProtectsWitness ==
    /\ last.op \in {"put", "delete"}
    /\ last.hdr = <<"Bearer ", Forged>>
    /\ last.resp = InvalidJwtResponse
    /\ \E ad \in iklan : ad.ownerId = Forged.userId

KnownTokens == creds \cup {Forged, Garbage}

Registered(email) == \E i \in 1..Len(users) : users[i].email = email

\* the row a forgot-password request for this email is to persist
NewResetRow(email, token) ==
    [id |-> Len(resets) + 1, token |-> token, userId |-> FindUserByEmail(email).id,
     used |-> FALSE, expiresAt |-> 0]

JsonErrorBody(body) == "error" \in DOMAIN body \/ "fieldErrors" \in DOMAIN body

\* C12: every request that has ended was answered by the application, and
\* every answer that reports a failure carries a JSON error body; a store
\* call that throws leaves no request without such an answer.
ErrorsAnswered ==
    last.op # "none"
        => /\ last.resp # NoResponse
           /\ last.resp.status >= 400 => JsonErrorBody(last.resp.body)

\* a reset of the credential's user was answered 200, and its password write
\* was made on a later day than the credential was issued
ResetAfterIssue(c) ==
    /\ c.userId \in 1..Len(hist)
    /\ \E k \in 1..Len(hist[c.userId]) :
          /\ hist[c.userId][k].tok # 0
          /\ hist[c.userId][k].done
          /\ c.iat < hist[c.userId][k].at

\* C13: a credential that login issued passes the gate at every instant
\* before its embedded expiry; in particular a request that arrives, before
\* that expiry, with a credential issued before a successful password reset of
\* its user and after that reset, is let through with the credential's claims
\* attached.
CredentialSurvivesReset ==
    /\ \A c \in creds :
          now < c.exp
              => /\ auth(<<"Bearer ", c>>, now).next
                 /\ auth(<<"Bearer ", c>>, now).user.userId = c.userId
    /\ (/\ last.op = "post"
        /\ BearerOf(last)
        /\ last.hdr[2] \in creds
        /\ ~last.stale
        /\ ResetAfterIssue(last.hdr[2]))
            => /\ last.reqUser.userId = last.hdr[2].userId
               /\ last.reqUser.email = last.hdr[2].email
               /\ last.resp \notin {NoTokenResponse, InvalidJwtResponse}

\* a listing was created with a credential whose login password no longer
\* logs in
CredentialSurvivesResetWitness ==
    /\ last.op = "post"
    /\ last.resp.status = 201
    /\ BearerOf(last)
    /\ ResetAfterIssue(last.hdr[2])
    /\ ~BcryptCompare("secret1", users[last.hdr[2].userId].password)
    /\ last.resp.body.ownerId = last.hdr[2].userId

\* the request that has just ended ran in a single step: it was decided by
\* the lookup it started with
EndedAtLookup == last'.rid # last.rid /\ \A p \in Procs : proc[p].rid # last'.rid

\* C14: a listing is changed or removed only by the step that ends a PUT or
\* DELETE of that listing whose verified userId is the listing's ownerId; an
\* answered PUT or DELETE that passed the gate and whose lookup finds no
\* listing of that id owned by its userId is answered 404 'Not found', the
\* same for a missing listing and for another user's, and changes nothing; a
\* listing is created with the ownerId of its creator's verified userId, and
\* no step changes the ownerId of a listing.
OwnerOnly ==
    /\ [][\A ad \in iklan : ad \notin iklan'
            => /\ last'.rid # last.rid
               /\ last'.op \in {"put", "delete"}
               /\ ValidBearer(last')
               /\ last'.id = ad.id
               /\ last'.reqUser.userId = ad.ownerId
               /\ last'.hdr[2].userId = ad.ownerId]_vars
    /\ [][(/\ EndedAtLookup
            /\ last'.op \in {"put", "delete"}
            /\ ValidBearer(last')
            /\ last'.resp # NoResponse
            /\ ~\E ad \in iklan : ad.id = last'.id /\ ad.ownerId = last'.hdr[2].userId)
            => (last'.resp = NotFoundResponse /\ iklan' = iklan)]_vars
    /\ [][\A ad \in iklan' : (~\E b \in iklan : b.id = ad.id)
            => /\ last'.rid # last.rid
               /\ last'.op = "post"
               /\ ValidBearer(last')
               /\ ad.ownerId = last'.hdr[2].userId]_vars
    /\ [][\A ad \in iklan : \A b \in iklan' :
            ad.id = b.id => b.ownerId = ad.ownerId]_vars

\* a user's PUT or DELETE of another user's listing was answered 404 and the
\* listing is still there
OwnerOnlyWitness ==
    /\ last.op \in {"put", "delete"}
    /\ ValidBearer(last)
    /\ last.resp = NotFoundResponse
    /\ \E ad \in iklan : ad.id = last.id /\ ad.ownerId # last.hdr[2].userId

\* the request that arrived last
Newest ==
    IF \E p \in Procs : proc[p].pc # "idle" /\ proc[p].rid = nreq
      THEN proc[CHOOSE p \in Procs : proc[p].pc # "idle" /\ proc[p].rid = nreq]
      ELSE last

\* the table holds a row with this token whose used flag is false
UnusedRow(token) ==
    \E i \in 1..Len(resets) : resets[i].token = token /\ ~resets[i].used

\* C15: a reset request with a well-formed body whose lookup is answered goes
\* on to change the password exactly when the table holds a row with its
\* token and used = false, and is answered 400 otherwise, whatever the row's
\* user has had reset before; the only change ever made to an existing token
\* row is that the reset answered 200 with that row's token sets its used
\* flag, so spending one token or issuing another leaves every other row as it
\* was.
TokensIndependent ==
    /\ [][(/\ nreq' = nreq + 1
            /\ Newest'.op = "reset"
            /\ ResetSchema(Newest'.body) = {}
            /\ ~(Newest'.pc = "idle" /\ Newest'.resp = NoResponse))
            => IF UnusedRow(Newest'.body.token)
                 THEN Newest'.pc = "reset_update_user"
                 ELSE Newest'.pc = "idle" /\ Newest'.resp = InvalidTokenResponse]_vars
    /\ [][/\ Len(resets') >= Len(resets)
          /\ \A i \in 1..Len(resets) :
                \/ resets'[i] = resets[i]
                \/ /\ last'.rid # last.rid
                   /\ last'.op = "reset"
                   /\ last'.resp = ResetOkResponse
                   /\ last'.record.id = i
                   /\ resets'[i] = [resets[i] EXCEPT !.used = TRUE]]_vars

\* a user's first token changed the password after the same user's second
\* token had been issued and spent
TokensIndependentWitness ==
    /\ last.op = "reset"
    /\ last.resp = ResetOkResponse
    /\ last.record.id = 1
    /\ last.prior >= 1
    /\ ~last.late
    /\ Len(resets) >= 2
    /\ resets[2].userId = resets[1].userId
    /\ resets[2].used
    /\ users[resets[1].userId].password = BcryptHash(last.body.newPassword, last.rid)
    /\ Len(hist[resets[1].userId]) = 3
====
